---- MODULE Spec2Model ----
(***************************************************************************)
(* Encrypted smart-grid telemetry pipeline: the analytics server           *)
(* (src/analytics_server/server.py), its homomorphic aggregator            *)
(* (src/common/encryption.py), the wire record (src/common/utils.py) and   *)
(* the smart meters (src/smart_meters/meter_client.py).                    *)
(*                                                                         *)
(* Threads are modelled by program counters; one action is one step of a   *)
(* thread between two points where it touches shared state or the network. *)
(* Sleeps change no state and are folded into the step before them.        *)
(***************************************************************************)
EXTENDS Integers, Sequences, FiniteSets, TLC

\* ------------------------------------------------------------------ bounds
MaxConns == 4          \* connections opened towards the server
MaxPeers == 2          \* connections opened by arbitrary peers
NumMeters == 2         \* meter ids 0 .. NumMeters-1
MaxCount == 2          \* largest encrypted_count a peer puts in a message
MaxAggs == 2           \* aggregation calls
MaxPipelineAggs == 1   \* aggregation calls while the meters run
MaxBytes == 1          \* largest byte length of a message (in abstract units)
MaxReadings == 4       \* readings a meter generates
NumProducers == 1      \* meters of the grid that run: ids 0 .. NumProducers-1
MaxGens == 2           \* thread pairs one meter may have alive at once

\* ------------------------------------------------------- program constants
batch_size == 2        \* meter_client.py main(): meter_config.get('batch_size', 2)

Conns == 1..MaxConns
MeterIds == 0..(NumMeters - 1)
Aggs == 1..MaxAggs
Meters == 0..(NumProducers - 1)
Gens == 1..MaxGens

\* ------------------------------------------------------------ wire messages
\* What a client put on a connection.  kind says how the bytes decode:
\*   valid     a JSON object with every field, properly typed
\*   nocount   a JSON object without "encrypted_count"
\*   badcount  a JSON object whose "encrypted_count" is a string
\*   missing   a JSON object lacking a required field
\*   nonjson   UTF-8 text that is not JSON
\*   nonutf8   bytes that are not UTF-8
\*   partial   the beginning of a message: no b'\n' yet, not JSON as it stands
MsgKinds == {"valid", "nocount", "badcount", "missing", "nonjson", "nonutf8", "partial",
             "several"}
NoMsg == [kind |-> "none", meter_id |-> 0, timestamp |-> 0, ciphertext |-> <<0, 0>>,
          count |-> 0, nbytes |-> 0]

Msg(kind, m, ts, ct, n, len) ==
    [kind |-> kind, meter_id |-> m, timestamp |-> ts, ciphertext |-> ct,
     count |-> n, nbytes |-> len]

\* data.decode('utf-8') raises
DecodeFails(msg) == msg.kind = "nonutf8"

\* json.loads raises, or EncryptedData.from_dict raises KeyError
DeserializeFailsOnlyOnJson(msg) == msg.kind = "nonjson"
DeserializeFails(msg) == msg.kind \in {"nonjson", "missing", "partial", "several"}

\* EncryptedData.from_dict: data.get('encrypted_count', 1)
EncryptedCount(msg) == IF msg.kind = "nocount" THEN 1 ELSE msg.count

\* total_readings_received += encrypted_count raises TypeError
CountIsInt(msg) == msg.kind # "badcount"

VARIABLES
    \* ---- AnalyticsServer
    encrypted_readings,       \* meter_id -> sequence of ciphertexts
    reading_timestamps,       \* meter_id -> sequence of timestamps
    key_order,                \* insertion order of the keys of encrypted_readings
    stored_batches,           \* history: the EncryptedData record behind each stored ciphertext
    total_readings_received,
    active_meters,
    analytics_results,        \* the AnalyticsResult log
    total_bytes_received,
    lock,                     \* holder of self.lock, or Nobody
    is_running,               \* AnalyticsServer.is_running
    server_pc,                \* the accept thread
    server_socket,            \* self.server_socket: "none" (None), "open" or "closed"
    \* ---- connections and their handler threads
    c_msg,                    \* what the client sent on the connection
    c_peer_closed,            \* the client closed without sending
    c_pc,                     \* the handler thread
    c_sent,                   \* bytes the server sent on the connection
    h_tmp,                    \* handler local: total_bytes_received as loaded
    \* ---- calls of compute_aggregate_sum / compute_aggregate_mean
    agg_pc,
    agg_op,                   \* "sum" or "mean"
    agg_all,                  \* local all_encrypted
    agg_batches,              \* history: the records behind all_encrypted
    agg_result,               \* local result (the AnalyticsResult built)
    agg_ret,                  \* what the call returned
    \* ---- SmartMeter, one per meter id
    meter_running,            \* SmartMeter.is_running
    reading_count,
    readings_buffer,          \* the reading_id of each buffered MeterReading
    \* (the next five are per thread: meter id, then the start() that made it)
    read_pc,                  \* a thread of _reading_loop
    send_pc,                  \* a thread of _sending_loop
    readings_to_send,         \* local of _sending_loop
    encrypted_data,           \* local of _encrypt_and_send
    sock,                     \* local of _send_to_server: its connection, 0 for none
    sock_open,                \* the socket of the last call was created and close() not called
    batches_sent,             \* len(self.encryption_times)
    sliced,                   \* history: batches sliced so far
    send_log,                 \* history: how each transmission ended
    \* ---- one EncryptedData on its way from _send_to_server to from_dict
    w_pc,
    w_batch,                  \* the EncryptedData the meter built
    w_json,                   \* data_json, a sequence of characters
    w_data,                   \* the bytes the handler received
    w_parsed                  \* the EncryptedData from_dict returned

store_vars == <<encrypted_readings, reading_timestamps, key_order, stored_batches,
               total_readings_received, active_meters>>
server_vars == <<encrypted_readings, reading_timestamps, key_order, stored_batches,
                 total_readings_received, active_meters, analytics_results,
                 total_bytes_received, lock, is_running, server_pc, server_socket>>
conn_vars == <<c_msg, c_peer_closed, c_pc, c_sent, h_tmp>>
agg_vars == <<agg_pc, agg_op, agg_all, agg_batches, agg_result, agg_ret>>
meter_vars == <<meter_running, reading_count, readings_buffer, read_pc, send_pc,
               readings_to_send, encrypted_data, sock, sock_open, batches_sent, sliced,
               send_log>>
wire_vars == <<w_pc, w_batch, w_json, w_data, w_parsed>>
vars == <<server_vars, conn_vars, agg_vars, meter_vars, wire_vars>>

Nobody == <<"nobody", 0>>
Handler(c) == <<"handler", c>>
Aggregation(a) == <<"aggregation", a>>

\* AnalyticsServer.__init__
InitServer ==
    /\ encrypted_readings = [m \in MeterIds |-> << >>]
    /\ reading_timestamps = [m \in MeterIds |-> << >>]
    /\ key_order = << >>
    /\ stored_batches = [m \in MeterIds |-> << >>]
    /\ analytics_results = << >>
    /\ total_readings_received = 0
    /\ total_bytes_received = 0
    /\ active_meters = {}
    /\ lock = Nobody
    /\ is_running = FALSE
    /\ server_pc = "none"
    /\ server_socket = "none"

InitConns ==
    /\ c_msg = [c \in Conns |-> NoMsg]
    /\ c_peer_closed = [c \in Conns |-> FALSE]
    /\ c_pc = [c \in Conns |-> "free"]
    /\ c_sent = [c \in Conns |-> ""]
    /\ h_tmp = [c \in Conns |-> 0]

\* An AnalyticsResult; timestamp and computation_time_ms are wall-clock
\* measurements and are left out
AnalyticsResult(op, res, nm, nr) ==
    [operation |-> op, encrypted_result |-> res, num_meters |-> nm, num_readings |-> nr]

\* A ciphertext value: the blobs added into it, in fold order, and the
\* denominator d of the plaintext scalar 1/d it was multiplied by
NoCipher == [terms |-> << >>, den |-> 0]
NoResult == AnalyticsResult("none", NoCipher, 0, 0)
NoReturn == [kind |-> "none", value |-> NoCipher, num_readings |-> 0]

InitAggs ==
    /\ agg_pc = [a \in Aggs |-> "idle"]
    /\ agg_op = [a \in Aggs |-> "none"]
    /\ agg_all = [a \in Aggs |-> << >>]
    /\ agg_batches = [a \in Aggs |-> << >>]
    /\ agg_result = [a \in Aggs |-> NoResult]
    /\ agg_ret = [a \in Aggs |-> NoReturn]

\* SmartMeter.__init__
InitMeters ==
    /\ meter_running = [m \in MeterIds |-> FALSE]
    /\ reading_count = [m \in MeterIds |-> 0]
    /\ readings_buffer = [m \in MeterIds |-> << >>]
    /\ read_pc = [m \in MeterIds |-> [g \in Gens |-> "none"]]
    /\ send_pc = [m \in MeterIds |-> [g \in Gens |-> "none"]]
    /\ readings_to_send = [m \in MeterIds |-> [g \in Gens |-> << >>]]
    /\ encrypted_data = [m \in MeterIds |-> [g \in Gens |-> NoMsg]]
    /\ sock = [m \in MeterIds |-> [g \in Gens |-> 0]]
    /\ sock_open = [m \in MeterIds |-> [g \in Gens |-> FALSE]]
    /\ batches_sent = [m \in MeterIds |-> 0]
    /\ sliced = [m \in MeterIds |-> 0]
    /\ send_log = [m \in MeterIds |-> << >>]

\* No EncryptedData built yet
NoBatch == [kind |-> "none"]

InitWire ==
    /\ w_pc = "none"
    /\ w_batch = NoBatch
    /\ w_json = << >>
    /\ w_data = << >>
    /\ w_parsed = NoBatch

Init == InitServer /\ InitConns /\ InitAggs /\ InitMeters /\ InitWire

\* ------------------------------------------------------- AnalyticsServer
\* start(): returns at once when already running, else sets the flag and
\* launches the accept thread.  (A start() while an earlier accept thread is
\* still alive is not modelled: one accept thread at a time.)
ServerStart ==
    /\ ~is_running
    /\ server_pc \in {"none", "exited"}
    /\ is_running' = TRUE
    /\ server_pc' = "setup"
    /\ UNCHANGED <<store_vars, analytics_results, total_bytes_received, lock,
                   server_socket, conn_vars, agg_vars, meter_vars, wire_vars>>

\* if self.server_socket: self.server_socket.close()
CloseIfSet(s) == IF s = "none" THEN "none" ELSE "closed"

\* stop(): clears the flag and closes the socket the attribute holds, if it
\* holds one (the bounded join changes no state; a stop() that finds the
\* flag clear and nothing to close changes nothing)
ServerStop ==
    /\ server_pc # "none"
    /\ is_running \/ server_socket = "open"
    /\ is_running' = FALSE
    /\ server_socket' = CloseIfSet(server_socket)
    /\ UNCHANGED <<store_vars, analytics_results, total_bytes_received, lock,
                   server_pc, conn_vars, agg_vars, meter_vars, wire_vars>>

\* _server_loop: self.server_socket = socket(), then bind(), listen(); an
\* exception of bind or listen is the "Fatal error" path, which ends the
\* thread through the finally clause (and closes nothing)
ServerSetup ==
    /\ server_pc = "setup"
    /\ server_socket' = "open"
    /\ \/ server_pc' = "loop" /\ UNCHANGED is_running
       \/ server_pc' = "exited" /\ is_running' = FALSE
    /\ UNCHANGED <<store_vars, analytics_results, total_bytes_received, lock,
                   conn_vars, agg_vars, meter_vars, wire_vars>>

\* The test of the accept loop
WhileNoHandlerFailed ==
    is_running /\ \A c \in Conns : ~(c_pc[c] = "done" /\ c_sent[c] = "")
WhileForever == TRUE
WhileRunning == is_running

\* while self.is_running: ... finally: self.is_running = False
ServerLoopCheck ==
    /\ server_pc = "loop"
    /\ IF WhileRunning
         THEN server_pc' = "accepting" /\ UNCHANGED is_running
         ELSE server_pc' = "exited" /\ is_running' = FALSE
    /\ UNCHANGED <<store_vars, analytics_results, total_bytes_received, lock,
                   server_socket, conn_vars, agg_vars, meter_vars, wire_vars>>

\* accept() returns the oldest connection of the backlog: a handler thread is
\* started for it
ServerAccept(c) ==
    /\ server_pc = "accepting"
    /\ c_pc[c] = "connected"
    /\ \A d \in Conns : d < c => c_pc[d] # "connected"
    /\ c_pc' = [c_pc EXCEPT ![c] = "recv"]
    /\ server_pc' = "loop"
    /\ UNCHANGED <<store_vars, analytics_results, total_bytes_received, lock,
                   is_running, server_socket, c_msg, c_peer_closed, c_sent, h_tmp,
                   agg_vars, meter_vars, wire_vars>>

\* accept() times out after 1 s (or raises): back to the loop test
ServerAcceptTimeout ==
    /\ server_pc = "accepting"
    /\ server_pc' = "loop"
    /\ UNCHANGED <<store_vars, analytics_results, total_bytes_received, lock,
                   is_running, server_socket, conn_vars, agg_vars, meter_vars,
                   wire_vars>>

\* ------------------------------------------------------- _handle_client
\* recv() returns b'' with nothing read: `if data:` is false, the socket is closed
HandlerRecvEmpty(c) ==
    /\ c_pc[c] = "recv"
    /\ c_msg[c] = NoMsg
    /\ c_peer_closed[c]
    /\ c_pc' = [c_pc EXCEPT ![c] = "done"]
    /\ UNCHANGED <<server_vars, c_msg, c_peer_closed, c_sent, h_tmp, agg_vars,
                   meter_vars, wire_vars>>

\* Where the handler goes from except socket.timeout: to the finally clause
AfterRecvTimeoutProcess == "bytes_load"
AfterRecvTimeout == "done"

\* recv() raises socket.timeout after 5 s without a terminator, with nothing
\* or with the beginning of a message in data
HandlerRecvTimeout(c) ==
    /\ c_pc[c] = "recv"
    /\ c_msg[c] = NoMsg \/ c_msg[c].kind = "partial"
    /\ ~c_peer_closed[c]
    /\ c_pc' = [c_pc EXCEPT ![c] = AfterRecvTimeout]
    /\ UNCHANGED <<server_vars, c_msg, c_peer_closed, c_sent, h_tmp, agg_vars,
                   meter_vars, wire_vars>>

\* Where the handler goes after _process_encrypted_data caught an exception
\* and returned: on to the statements after the call
AfterProcessError == "bytes_load"

\* Where it goes once from_dict has returned a record: into the with block
AfterDeserializeSkipStore == "bytes_load"
AfterDeserialize == "L191"

\* The receive loop ends on a terminator, or on the peer's close with data in
\* hand.  Then data.decode('utf-8') raises into _handle_client's handler
\* (close, no more); json.loads / from_dict raise inside
\* _process_encrypted_data, which catches, prints and returns normally.
HandlerRecvData(c) ==
    /\ c_pc[c] = "recv"
    /\ c_msg[c] # NoMsg
    /\ c_msg[c].kind = "partial" => c_peer_closed[c]
    /\ c_pc' = [c_pc EXCEPT ![c] =
                   IF DecodeFails(c_msg[c]) THEN "done"
                   ELSE IF DeserializeFails(c_msg[c]) THEN AfterProcessError
                   ELSE AfterDeserialize]
    /\ UNCHANGED <<server_vars, c_msg, c_peer_closed, c_sent, h_tmp, agg_vars,
                   meter_vars, wire_vars>>

\* with self.lock: is entered only when nobody holds the lock
LockAlwaysFree == TRUE
LockFree == lock = Nobody

\* with self.lock: self.encrypted_readings[meter_id].append(ciphertext)
ListPrepend(list, item) == <<item>> \o list
ListAppend(list, item) == Append(list, item)

HandlerL191(c) ==
    /\ c_pc[c] = "L191"
    /\ LockFree
    /\ LET d == c_msg[c] IN
         /\ lock' = Handler(c)
         /\ encrypted_readings' = [encrypted_readings EXCEPT
                                      ![d.meter_id] = ListAppend(@, d.ciphertext)]
         /\ stored_batches' = [stored_batches EXCEPT ![d.meter_id] = Append(@, d)]
         /\ key_order' = IF \E i \in 1..Len(key_order) : key_order[i] = d.meter_id
                           THEN key_order ELSE Append(key_order, d.meter_id)
    /\ c_pc' = [c_pc EXCEPT ![c] = "L192"]
    /\ UNCHANGED <<reading_timestamps, total_readings_received, active_meters,
                   analytics_results, total_bytes_received, is_running, server_pc,
                   server_socket, c_msg, c_peer_closed, c_sent, h_tmp, agg_vars,
                   meter_vars, wire_vars>>

\* self.reading_timestamps[meter_id].append(timestamp)
HandlerL192(c) ==
    /\ c_pc[c] = "L192"
    /\ reading_timestamps' = [reading_timestamps EXCEPT
                                 ![c_msg[c].meter_id] = Append(@, c_msg[c].timestamp)]
    /\ c_pc' = [c_pc EXCEPT ![c] = "L193"]
    /\ UNCHANGED <<encrypted_readings, key_order, stored_batches,
                   total_readings_received, active_meters, analytics_results,
                   total_bytes_received, lock, is_running, server_pc, server_socket,
                   c_msg, c_peer_closed, c_sent, h_tmp, agg_vars, meter_vars,
                   wire_vars>>

\* Line 193 adds the record's encrypted_count
CounterIncrementByOne(msg) == 1
CounterIncrement(msg) == EncryptedCount(msg)

\* self.total_readings_received += encrypted_count is a load, an add and a
\* store.  The load:
HandlerL193Load(c) ==
    /\ c_pc[c] = "L193"
    /\ h_tmp' = [h_tmp EXCEPT ![c] = total_readings_received]
    /\ c_pc' = [c_pc EXCEPT ![c] = "L193s"]
    /\ UNCHANGED <<server_vars, c_msg, c_peer_closed, c_sent, agg_vars, meter_vars,
                   wire_vars>>

\* The add and the store; adding a str raises TypeError: the with block
\* releases the lock, the except clause of _process_encrypted_data prints
HandlerL193Store(c) ==
    /\ c_pc[c] = "L193s"
    /\ IF CountIsInt(c_msg[c])
         THEN /\ total_readings_received' = h_tmp[c] + CounterIncrement(c_msg[c])
              /\ c_pc' = [c_pc EXCEPT ![c] = "L194"]
              /\ UNCHANGED lock
         ELSE /\ lock' = Nobody
              /\ c_pc' = [c_pc EXCEPT ![c] = AfterProcessError]
              /\ UNCHANGED total_readings_received
    /\ UNCHANGED <<encrypted_readings, reading_timestamps, key_order, stored_batches,
                   active_meters, analytics_results, total_bytes_received, is_running,
                   server_pc, server_socket, c_msg, c_peer_closed, c_sent, h_tmp,
                   agg_vars, meter_vars, wire_vars>>

\* self.active_meters.add(meter_id); leaving the with block releases the lock
HandlerL194(c) ==
    /\ c_pc[c] = "L194"
    /\ active_meters' = active_meters \cup {c_msg[c].meter_id}
    /\ lock' = Nobody
    /\ c_pc' = [c_pc EXCEPT ![c] = "bytes_load"]
    /\ UNCHANGED <<encrypted_readings, reading_timestamps, key_order, stored_batches,
                   total_readings_received, analytics_results, total_bytes_received,
                   is_running, server_pc, server_socket, c_msg, c_peer_closed, c_sent,
                   h_tmp, agg_vars, meter_vars, wire_vars>>

\* self.total_bytes_received += len(data), outside the lock: load ...
HandlerBytesLoad(c) ==
    /\ c_pc[c] = "bytes_load"
    /\ h_tmp' = [h_tmp EXCEPT ![c] = total_bytes_received]
    /\ c_pc' = [c_pc EXCEPT ![c] = "bytes_store"]
    /\ UNCHANGED <<server_vars, c_msg, c_peer_closed, c_sent, agg_vars, meter_vars,
                   wire_vars>>

\* ... then store
HandlerBytesStore(c) ==
    /\ c_pc[c] = "bytes_store"
    /\ total_bytes_received' = h_tmp[c] + c_msg[c].nbytes
    /\ c_pc' = [c_pc EXCEPT ![c] = "ack"]
    /\ UNCHANGED <<store_vars, analytics_results, lock, is_running, server_pc,
                   server_socket, c_msg, c_peer_closed, c_sent, h_tmp, agg_vars,
                   meter_vars, wire_vars>>

\* Where the handler goes after the ACK: to the finally clause, no second recv
AfterAckRecvAgain == "recv"
AfterAck == "done"

\* client_socket.sendall(b'ACK'), then finally: client_socket.close()
HandlerAck(c) ==
    /\ c_pc[c] = "ack"
    /\ c_sent' = [c_sent EXCEPT ![c] = "ACK"]
    /\ c_pc' = [c_pc EXCEPT ![c] = AfterAck]
    /\ UNCHANGED <<server_vars, c_msg, c_peer_closed, h_tmp, agg_vars, meter_vars,
                   wire_vars>>

HandlerStep(c) ==
    \/ HandlerRecvData(c)
    \/ HandlerRecvEmpty(c)
    \/ HandlerRecvTimeout(c)
    \/ HandlerL191(c)
    \/ HandlerL192(c)
    \/ HandlerL193Load(c)
    \/ HandlerL193Store(c)
    \/ HandlerL194(c)
    \/ HandlerBytesLoad(c)
    \/ HandlerBytesStore(c)
    \/ HandlerAck(c)

\* ---------------------------------------------------------------- peers
\* Any client of the TCP port.  Connections are numbered in the order they
\* are opened; the ciphertext blob sent on connection c is <<meter_id, c>>.
PeerConnect(c, limit) ==
    /\ c <= limit
    /\ c_pc[c] = "free"
    /\ \A d \in Conns : d < c => c_pc[d] # "free"
    /\ server_pc \in {"loop", "accepting"}
    /\ c_pc' = [c_pc EXCEPT ![c] = "connected"]
    /\ UNCHANGED <<server_vars, c_msg, c_peer_closed, c_sent, h_tmp, agg_vars,
                   meter_vars, wire_vars>>

PeerMsgs(c) ==
    {Msg("valid", m, c, <<m, c>>, n, len) :
        m \in MeterIds, n \in 1..MaxCount, len \in 1..MaxBytes}
    \cup {Msg(k, m, c, <<m, c>>, 0, len) :
        k \in {"nocount", "badcount"}, m \in MeterIds, len \in 1..MaxBytes}
    \cup {Msg(k, 0, 0, <<0, c>>, 0, len) :
        k \in {"missing", "nonjson", "nonutf8", "partial", "several"}, len \in 1..MaxBytes}

\* sendall of a whole message, of its beginning, or of the rest after a
\* beginning
PeerSend(c, msgs) ==
    /\ c_pc[c] \in {"connected", "recv"}
    /\ c_msg[c] = NoMsg \/ c_msg[c].kind = "partial"
    /\ ~c_peer_closed[c]
    /\ \E msg \in msgs :
          /\ c_msg[c].kind = "partial" => msg.kind # "partial"
          /\ c_msg' = [c_msg EXCEPT ![c] = msg]
    /\ UNCHANGED <<server_vars, c_peer_closed, c_pc, c_sent, h_tmp, agg_vars,
                   meter_vars, wire_vars>>

PeerClose(c) ==
    /\ c_pc[c] \in {"connected", "recv"}
    /\ c_msg[c] = NoMsg \/ c_msg[c].kind = "partial"
    /\ ~c_peer_closed[c]
    /\ c_peer_closed' = [c_peer_closed EXCEPT ![c] = TRUE]
    /\ UNCHANGED <<server_vars, c_msg, c_pc, c_sent, h_tmp, agg_vars, meter_vars,
                   wire_vars>>

\* ------------------------------------------------- CKKSEncryptionEngine
\* Each CKKSEncryptionEngine() builds its own context in _create_context.
\* The server constructs one engine, the grid constructs another.
ServerContext == "AnalyticsServer.encryption_engine.context"
GridContext == "SmartMeterGrid.encryption_engine.context"

\* SmartMeter(..., encryption_engine=self.encryption_engine): the context
\* every meter of the grid encrypts under
EngineOf(m) == GridContext

\* EncryptedAggregator(self.encryption_engine): the context that
\* ts.ckks_vector_from(self.engine.context, blob) loads each blob into
AggregatorContext == ServerContext

\* ------------------------------------------------- EncryptedAggregator
\* ts.ckks_vector_from(context, blob)
CkksVectorFrom(ct) == [terms |-> <<ct>>, den |-> 1]

\* result + encrypted_next
HAdd(x, y) == [terms |-> x.terms \o y.terms, den |-> x.den]

\* vec * plain_scalar, the scalar being 1/d
MultiplyByPlain(x, d) == [terms |-> x.terms, den |-> x.den * d]

\* sum_encrypted_readings: if not encrypted_readings: raise ValueError
SumRaises(all) == Len(all) = 0

RECURSIVE FoldFrom(_, _, _)
FoldFrom(result, all, i) ==
    IF i > Len(all) THEN result
    ELSE FoldFrom(HAdd(result, CkksVectorFrom(all[i])), all, i + 1)

Reverse(seq) == [i \in 1..Len(seq) |-> seq[Len(seq) + 1 - i]]
SumNewestFirst(all) == FoldFrom(CkksVectorFrom(Reverse(all)[1]), Reverse(all), 2)

\* sum_encrypted_readings: start from element 0, add elements 1 .. len-1
SumEncryptedReadings(all) == FoldFrom(CkksVectorFrom(all[1]), all, 2)

\* mean_factor = 1.0 / len(encrypted_readings): the denominator
MeanFactorDen(all) == Len(all)

\* mean_encrypted_readings
MeanEncryptedReadings(all) ==
    MultiplyByPlain(SumEncryptedReadings(all), MeanFactorDen(all))

\* ------------------------------ compute_aggregate_sum / compute_aggregate_mean
RECURSIVE Flatten(_, _)
\* for meter_readings in store.values(): all.extend(meter_readings)
Flatten(store, keys) ==
    IF keys = << >> THEN << >>
    ELSE store[Head(keys)] \o Flatten(store, Tail(keys))

\* if not all_encrypted: return None
IsEmptySnapshotNever(all) == FALSE
IsEmptySnapshot(all) == Len(all) = 0

Returned(kind, value, n) == [kind |-> kind, value |-> value, num_readings |-> n]

\* Who holds the lock when the call leaves its first with block (line 216)
HeldThroughFold(a) == Aggregation(a)
LockAfterSnapshot(a) == Nobody

\* The call copies the store under the lock (one step: the with block reads
\* only state written under the same lock), releases it and tests for no data.
\* The calls come from one caller thread (main.py:100-109), one after another.
AggSnapshot(a, op) ==
    /\ agg_pc[a] = "idle"
    /\ \A b \in Aggs : b < a => agg_pc[b] = "done"
    /\ LockFree
    /\ LET all == Flatten(encrypted_readings, key_order) IN
         /\ agg_op' = [agg_op EXCEPT ![a] = op]
         /\ IF IsEmptySnapshot(all)
              THEN /\ agg_pc' = [agg_pc EXCEPT ![a] = "done"]
                   /\ agg_ret' = [agg_ret EXCEPT ![a] = Returned("nodata", NoCipher, 0)]
                   /\ UNCHANGED <<agg_all, agg_batches>>
              ELSE /\ agg_pc' = [agg_pc EXCEPT ![a] = "fold"]
                   /\ agg_all' = [agg_all EXCEPT ![a] = all]
                   /\ agg_batches' = [agg_batches EXCEPT
                                         ![a] = Flatten(stored_batches, key_order)]
                   /\ UNCHANGED agg_ret
    /\ lock' = LockAfterSnapshot(a)
    /\ UNCHANGED <<store_vars, analytics_results, total_bytes_received, is_running,
                   server_pc, server_socket, conn_vars, agg_result, meter_vars,
                   wire_vars>>

\* total_count += len(meter_readings), summed over the store's values
TotalCount(all) == Len(all)

\* What the call hands to the aggregator: its local list all_encrypted
LiveStore(a) == Flatten(encrypted_readings, key_order)
AllEncrypted(a) == agg_all[a]

\* operation='sum' in compute_aggregate_sum, operation='mean' in
\* compute_aggregate_mean
OperationTagSum(op) == "sum"
OperationTag(op) == op

\* The fold, outside the lock, then AnalyticsResult(...), which reads
\* len(self.active_meters) without the lock
AggFold(a) ==
    /\ agg_pc[a] = "fold"
    /\ ~SumRaises(AllEncrypted(a))
    /\ agg_result' = [agg_result EXCEPT ![a] =
          AnalyticsResult(OperationTag(agg_op[a]),
                          IF agg_op[a] = "sum"
                            THEN SumEncryptedReadings(AllEncrypted(a))
                            ELSE MeanEncryptedReadings(AllEncrypted(a)),
                          Cardinality(active_meters),
                          TotalCount(agg_all[a]))]
    /\ agg_pc' = [agg_pc EXCEPT ![a] = "append"]
    /\ UNCHANGED <<server_vars, conn_vars, agg_op, agg_all, agg_batches, agg_ret,
                   meter_vars, wire_vars>>

\* The aggregator or the Provider raises (ValueError on an empty list, a blob
\* that is no ciphertext of this context, ...): except Exception: return None
AggFoldFails(a) ==
    /\ agg_pc[a] = "fold"
    /\ agg_pc' = [agg_pc EXCEPT ![a] = "done"]
    /\ agg_ret' = [agg_ret EXCEPT ![a] = Returned("error", NoCipher, 0)]
    /\ agg_all' = [agg_all EXCEPT ![a] = << >>]
    /\ agg_batches' = [agg_batches EXCEPT ![a] = << >>]
    /\ UNCHANGED <<server_vars, conn_vars, agg_op, agg_result, meter_vars, wire_vars>>

\* with self.lock: self.analytics_results.append(result); return the tuple
AggAppend(a) ==
    /\ agg_pc[a] = "append"
    /\ LockFree
    /\ analytics_results' = ListAppend(analytics_results, agg_result[a])
    /\ agg_ret' = [agg_ret EXCEPT ![a] =
          Returned("ok", agg_result[a].encrypted_result, agg_result[a].num_readings)]
    /\ agg_pc' = [agg_pc EXCEPT ![a] = "done"]
    /\ agg_all' = [agg_all EXCEPT ![a] = << >>]
    /\ agg_batches' = [agg_batches EXCEPT ![a] = << >>]
    /\ UNCHANGED <<store_vars, total_bytes_received, lock, is_running, server_pc,
                   server_socket, conn_vars, agg_op, agg_result, meter_vars, wire_vars>>

AggStep(a) ==
    \/ AggSnapshot(a, "sum")
    \/ AggSnapshot(a, "mean")
    \/ AggFold(a)
    \/ AggFoldFails(a)
    \/ AggAppend(a)

\* ------------------------------------------------------------ SmartMeter
\* A thread pair of an earlier start() whose loops have both returned
Exited(m, g) ==
    /\ read_pc[m][g] \in {"none", "exited"}
    /\ send_pc[m][g] \in {"none", "exited"}

\* start(): returns at once when already running, else sets the flag and
\* launches both threads.  start() looks at the flag only: threads of an
\* earlier start() that have not returned yet stay alive beside the new ones.
\* g is the first pair not alive.
MeterStart(m, g) ==
    /\ ~meter_running[m]
    /\ Exited(m, g)
    /\ \A h \in Gens : h < g => ~Exited(m, h)
    /\ meter_running' = [meter_running EXCEPT ![m] = TRUE]
    /\ read_pc' = [read_pc EXCEPT ![m][g] = "check"]
    /\ send_pc' = [send_pc EXCEPT ![m][g] = "check"]
    /\ UNCHANGED <<server_vars, conn_vars, agg_vars, reading_count, readings_buffer,
                   readings_to_send, encrypted_data, sock, sock_open, batches_sent,
                   sliced, send_log, wire_vars>>

MeterStopInterrupts(m) ==
    /\ meter_running[m]
    /\ meter_running' = [meter_running EXCEPT ![m] = FALSE]
    /\ send_pc' = [send_pc EXCEPT ![m] =
                      [g \in Gens |-> IF send_pc[m][g] = "none" THEN "none" ELSE "exited"]]
    /\ UNCHANGED <<server_vars, conn_vars, agg_vars, reading_count, readings_buffer,
                   read_pc, readings_to_send, encrypted_data, sock, sock_open,
                   batches_sent, sliced, send_log, wire_vars>>

\* stop(): clears the flag (the bounded joins change no state)
MeterStop(m) ==
    /\ meter_running[m]
    /\ meter_running' = [meter_running EXCEPT ![m] = FALSE]
    /\ UNCHANGED <<server_vars, conn_vars, agg_vars, reading_count, readings_buffer,
                   read_pc, send_pc, readings_to_send, encrypted_data, sock, sock_open,
                   batches_sent, sliced, send_log, wire_vars>>

\* The test of both loops: while self.is_running
LoopForever(m) == TRUE
LoopTest(m) == meter_running[m]

\* _reading_loop: while self.is_running (the readings of a run are capped:
\* a running loop that has reached MaxReadings waits here)
ReadCheck(m, g) ==
    /\ read_pc[m][g] = "check"
    /\ meter_running[m] => reading_count[m] < MaxReadings
    /\ read_pc' = [read_pc EXCEPT ![m][g] = IF LoopTest(m) THEN "append" ELSE "exited"]
    /\ UNCHANGED <<server_vars, conn_vars, agg_vars, meter_running, reading_count,
                   readings_buffer, send_pc, readings_to_send, encrypted_data, sock,
                   sock_open, batches_sent, sliced, send_log, wire_vars>>

\* self.lock of a meter: held by a send loop between the two statements of
\* its slice, and for the one statement of an append
MeterLockAlwaysFree(m) == TRUE
MeterLockFree(m) == \A g \in Gens : send_pc[m][g] # "rest"

\* MeterReading(reading_id=self.reading_count); with self.lock: buffer.append
ReadAppend(m, g) ==
    /\ read_pc[m][g] = "append"
    /\ MeterLockFree(m)
    /\ readings_buffer' = [readings_buffer EXCEPT ![m] = Append(@, reading_count[m])]
    /\ read_pc' = [read_pc EXCEPT ![m][g] = "incr"]
    /\ UNCHANGED <<server_vars, conn_vars, agg_vars, meter_running, reading_count,
                   send_pc, readings_to_send, encrypted_data, sock, sock_open,
                   batches_sent, sliced, send_log, wire_vars>>

\* self.reading_count += 1, then the sleep
ReadIncr(m, g) ==
    /\ read_pc[m][g] = "incr"
    /\ reading_count' = [reading_count EXCEPT ![m] = @ + 1]
    /\ read_pc' = [read_pc EXCEPT ![m][g] = "check"]
    /\ UNCHANGED <<server_vars, conn_vars, agg_vars, meter_running, readings_buffer,
                   send_pc, readings_to_send, encrypted_data, sock, sock_open,
                   batches_sent, sliced, send_log, wire_vars>>

\* _sending_loop: while self.is_running
SendCheck(m, g) ==
    /\ send_pc[m][g] = "check"
    /\ send_pc' = [send_pc EXCEPT ![m][g] = IF LoopTest(m) THEN "slice" ELSE "exited"]
    /\ UNCHANGED <<server_vars, conn_vars, agg_vars, meter_running, reading_count,
                   readings_buffer, read_pc, readings_to_send, encrypted_data, sock,
                   sock_open, batches_sent, sliced, send_log, wire_vars>>

\* if len(self.readings_buffer) >= self.batch_size
CanSliceAny(buf) == Len(buf) > 0
CanSlice(buf) == Len(buf) >= batch_size

\* buffer[:batch_size] and buffer[batch_size:], as Python slices them
SliceHead(buf) == SubSeq(buf, 1, IF Len(buf) < batch_size THEN Len(buf) ELSE batch_size)
SliceRest(buf) == SubSeq(buf, batch_size + 1, Len(buf))

\* with self.lock: test the length and take the batch, or None; without a
\* batch, leave the lock, sleep and loop
SendSlice(m, g) ==
    /\ send_pc[m][g] = "slice"
    /\ MeterLockFree(m)
    /\ IF CanSlice(readings_buffer[m])
         THEN /\ readings_to_send' = [readings_to_send EXCEPT
                                         ![m][g] = SliceHead(readings_buffer[m])]
              /\ send_pc' = [send_pc EXCEPT ![m][g] = "rest"]
         ELSE /\ send_pc' = [send_pc EXCEPT ![m][g] = "check"]
              /\ UNCHANGED readings_to_send
    /\ UNCHANGED <<server_vars, conn_vars, agg_vars, meter_running, reading_count,
                   readings_buffer, read_pc, encrypted_data, sock, sock_open,
                   batches_sent, sliced, send_log, wire_vars>>

\* self.readings_buffer = self.readings_buffer[self.batch_size:], then the
\* lock is left
SendSliceRest(m, g) ==
    /\ send_pc[m][g] = "rest"
    /\ readings_buffer' = [readings_buffer EXCEPT
                              ![m] = SliceRest(readings_buffer[m])]
    /\ sliced' = [sliced EXCEPT ![m] = @ + 1]
    /\ send_pc' = [send_pc EXCEPT ![m][g] = "encrypt"]
    /\ UNCHANGED <<server_vars, conn_vars, agg_vars, meter_running, reading_count,
                   read_pc, readings_to_send, encrypted_data, sock, sock_open,
                   batches_sent, send_log, wire_vars>>

\* The EncryptedData of _encrypt_and_send: the k-th batch of meter m carries
\* the blob <<m, k>>, its timestamp is abstracted to k, its length to 1
BuildEncryptedData(m, k, readings) ==
    Msg("valid", m, k, <<m, k>>, Len(readings), 1)

\* _encrypt_and_send: encrypt_data, EncryptedData(..., encrypted_count=len(readings))
SendEncrypt(m, g) ==
    /\ send_pc[m][g] = "encrypt"
    /\ encrypted_data' = [encrypted_data EXCEPT
                             ![m][g] = BuildEncryptedData(m, sliced[m], readings_to_send[m][g])]
    /\ send_pc' = [send_pc EXCEPT ![m][g] = "connect"]
    /\ UNCHANGED <<server_vars, conn_vars, agg_vars, meter_running, reading_count,
                   readings_buffer, read_pc, readings_to_send, sock, sock_open,
                   batches_sent, sliced, send_log, wire_vars>>

\* Where the sending loop goes when _encrypt_and_send has caught the
\* Provider's exception: back to its test
AfterProviderFailureExit == "exited"
AfterProviderFailure == "check"

\* encrypt_data raises: except Exception prints, the loop sleeps and goes on
SendEncryptFails(m, g) ==
    /\ send_pc[m][g] = "encrypt"
    /\ send_log' = [send_log EXCEPT ![m] = Append(@, "encrypt_failed")]
    /\ readings_to_send' = [readings_to_send EXCEPT ![m][g] = << >>]
    /\ send_pc' = [send_pc EXCEPT ![m][g] = AfterProviderFailure]
    /\ UNCHANGED <<server_vars, conn_vars, agg_vars, meter_running, reading_count,
                   readings_buffer, read_pc, encrypted_data, sock, sock_open,
                   batches_sent, sliced, wire_vars>>

\* Where the sending loop goes when _send_to_server has caught an exception
AfterSendFailureExit == "exited"
AfterSendFailure == "check"

\* The buffer once a transmission has ended, whatever its outcome: no
\* statement of _encrypt_and_send or _send_to_server assigns readings_buffer
RequeueBatch(buf, batch) == batch \o buf
BufferAfterSend(buf, batch) == buf

\* sock.close() follows recv and nothing else: it runs when recv returned
\* (b'ACK' or b''), and on no path through the two except clauses
ClosesSocket(how) == how \in {"ack", "no_ack"}

SendDoneCountsAcks(m, g, how, next) ==
    /\ send_log' = [send_log EXCEPT ![m] = Append(@, how)]
    /\ readings_buffer' = [readings_buffer EXCEPT
                              ![m] = BufferAfterSend(@, readings_to_send[m][g])]
    /\ batches_sent' = [batches_sent EXCEPT ![m] = IF how = "ack" THEN @ + 1 ELSE @]
    /\ readings_to_send' = [readings_to_send EXCEPT ![m][g] = << >>]
    /\ encrypted_data' = [encrypted_data EXCEPT ![m][g] = NoMsg]
    /\ sock' = [sock EXCEPT ![m][g] = 0]
    /\ sock_open' = [sock_open EXCEPT ![m][g] = ~ClosesSocket(how)]
    /\ send_pc' = [send_pc EXCEPT ![m][g] = next]

\* _send_to_server returned (it catches every exception): _encrypt_and_send
\* appends to encryption_times and communication_times, the loop sleeps
SendDone(m, g, how, next) ==
    /\ send_log' = [send_log EXCEPT ![m] = Append(@, how)]
    /\ readings_buffer' = [readings_buffer EXCEPT
                              ![m] = BufferAfterSend(@, readings_to_send[m][g])]
    /\ batches_sent' = [batches_sent EXCEPT ![m] = @ + 1]
    /\ readings_to_send' = [readings_to_send EXCEPT ![m][g] = << >>]
    /\ encrypted_data' = [encrypted_data EXCEPT ![m][g] = NoMsg]
    /\ sock' = [sock EXCEPT ![m][g] = 0]
    /\ sock_open' = [sock_open EXCEPT ![m][g] = ~ClosesSocket(how)]
    /\ send_pc' = [send_pc EXCEPT ![m][g] = next]

\* socket(), settimeout(5), connect(): the connection enters the backlog
SendConnect(m, g, c) ==
    /\ send_pc[m][g] = "connect"
    /\ server_pc \in {"loop", "accepting"}
    /\ c_pc[c] = "free"
    /\ \A d \in Conns : d < c => c_pc[d] # "free"
    /\ c_pc' = [c_pc EXCEPT ![c] = "connected"]
    /\ sock' = [sock EXCEPT ![m][g] = c]
    /\ sock_open' = [sock_open EXCEPT ![m][g] = TRUE]
    /\ send_pc' = [send_pc EXCEPT ![m][g] = "send"]
    /\ UNCHANGED <<server_vars, c_msg, c_peer_closed, c_sent, h_tmp, agg_vars,
                   meter_running, reading_count, readings_buffer, read_pc,
                   readings_to_send, encrypted_data, batches_sent, sliced, send_log,
                   wire_vars>>

\* connect() raises ConnectionRefusedError or times out
SendConnectFails(m, g) ==
    /\ send_pc[m][g] = "connect"
    /\ SendDone(m, g, "connect_failed", AfterSendFailure)
    /\ UNCHANGED <<server_vars, conn_vars, agg_vars, meter_running, reading_count,
                   read_pc, sliced, wire_vars>>

\* sock.sendall(data_json.encode('utf-8') + b'\n')
SendSendall(m, g) ==
    /\ send_pc[m][g] = "send"
    /\ c_msg' = [c_msg EXCEPT ![sock[m][g]] = encrypted_data[m][g]]
    /\ send_pc' = [send_pc EXCEPT ![m][g] = "recv"]
    /\ UNCHANGED <<server_vars, c_peer_closed, c_pc, c_sent, h_tmp, agg_vars,
                   meter_running, reading_count, readings_buffer, read_pc,
                   readings_to_send, encrypted_data, sock, sock_open, batches_sent,
                   sliced, send_log, wire_vars>>

\* sendall raises (the handler timed out and closed, or another I/O error);
\* the socket is dropped with nothing sent
SendSendallFails(m, g) ==
    /\ send_pc[m][g] = "send"
    /\ c_peer_closed' = [c_peer_closed EXCEPT ![sock[m][g]] = TRUE]
    /\ SendDone(m, g, "send_failed", AfterSendFailure)
    /\ UNCHANGED <<server_vars, c_msg, c_pc, c_sent, h_tmp, agg_vars, meter_running,
                   reading_count, read_pc, sliced, wire_vars>>

\* ack = sock.recv(1024) returns b'ACK'; sock.close()
SendRecvAck(m, g) ==
    /\ send_pc[m][g] = "recv"
    /\ c_sent[sock[m][g]] = "ACK"
    /\ SendDone(m, g, "ack", "check")
    /\ UNCHANGED <<server_vars, conn_vars, agg_vars, meter_running, reading_count,
                   read_pc, sliced, wire_vars>>

\* recv returns b'': the server closed without sending; "No acknowledgment"
SendRecvNoAck(m, g) ==
    /\ send_pc[m][g] = "recv"
    /\ c_pc[sock[m][g]] = "done"
    /\ c_sent[sock[m][g]] = ""
    /\ SendDone(m, g, "no_ack", AfterSendFailure)
    /\ UNCHANGED <<server_vars, conn_vars, agg_vars, meter_running, reading_count,
                   read_pc, sliced, wire_vars>>

SendRecvTimeoutResend(m, g) ==
    /\ send_pc[m][g] = "recv"
    /\ c_sent[sock[m][g]] = ""
    /\ c_pc[sock[m][g]] # "done"
    /\ sock' = [sock EXCEPT ![m][g] = 0]
    /\ send_pc' = [send_pc EXCEPT ![m][g] = "connect"]
    /\ UNCHANGED <<server_vars, conn_vars, agg_vars, meter_running, reading_count,
                   readings_buffer, read_pc, readings_to_send, encrypted_data,
                   sock_open, batches_sent, sliced, send_log, wire_vars>>

\* recv raises socket.timeout: 5 s passed without a byte from the server
SendRecvTimeout(m, g) ==
    /\ send_pc[m][g] = "recv"
    /\ c_sent[sock[m][g]] = ""
    /\ c_pc[sock[m][g]] # "done"
    /\ SendDone(m, g, "ack_timeout", AfterSendFailure)
    /\ UNCHANGED <<server_vars, conn_vars, agg_vars, meter_running, reading_count,
                   read_pc, sliced, wire_vars>>

\* The two threads of a meter
ReadThread(m, g) ==
    \/ ReadCheck(m, g)
    \/ ReadAppend(m, g)
    \/ ReadIncr(m, g)

SendThread(m, g) ==
    \/ SendCheck(m, g)
    \/ SendSlice(m, g)
    \/ SendSliceRest(m, g)
    \/ SendEncrypt(m, g)
    \/ SendEncryptFails(m, g)
    \/ \E c \in Conns : SendConnect(m, g, c)
    \/ SendConnectFails(m, g)
    \/ SendSendall(m, g)
    \/ SendSendallFails(m, g)
    \/ SendRecvAck(m, g)
    \/ SendRecvNoAck(m, g)
    \/ SendRecvTimeout(m, g)

\* A meter whose start() finds at most `limit` thread pairs to use
MeterStep(m, limit) ==
    \/ MeterStop(m)
    \/ \E g \in 1..limit : MeterStart(m, g) \/ ReadThread(m, g) \/ SendThread(m, g)

ServerStep ==
    \/ ServerStart
    \/ ServerStop
    \/ ServerSetup
    \/ ServerLoopCheck
    \/ ServerAcceptTimeout
    \/ \E c \in Conns : ServerAccept(c)

NextServer ==
    \/ ServerStep
    \/ \E c \in Conns : HandlerStep(c)
    \/ \E c \in Conns : PeerConnect(c, MaxPeers) \/ PeerSend(c, PeerMsgs(c)) \/ PeerClose(c)

\* The server under arbitrary peers
SpecServer == Init /\ [][NextServer]_vars

\* The accept thread: _server_loop
AcceptThread ==
    \/ ServerSetup
    \/ ServerLoopCheck
    \/ ServerAcceptTimeout
    \/ \E c \in Conns : ServerAccept(c)

\* The same with the scheduler's guarantee that the accept thread keeps
\* taking steps (accept() returns, raises or times out after 1 s)
FairServer == SpecServer /\ WF_vars(AcceptThread)

\* Messages whose batch the server stores and counts
StorableMsgs(c) == {msg \in PeerMsgs(c) : msg.kind = "valid"}

NextAgg ==
    \/ ServerStep
    \/ \E c \in Conns : HandlerStep(c)
    \/ \E c \in Conns : PeerConnect(c, MaxPeers) \/ PeerSend(c, StorableMsgs(c)) \/ PeerClose(c)
    \/ \E a \in Aggs : AggStep(a)

\* The server and its aggregator under peers that send storable batches
SpecAgg == Init /\ [][NextAgg]_vars
\* A load test with well-formed batches of batch_size readings, as a meter
\* builds them: client c speaks for meter c mod NumMeters
LoadMsgs(c) ==
    {Msg("valid", c % NumMeters, c, <<c % NumMeters, c>>, batch_size, 1)}

NextLoad ==
    \/ ServerStep
    \/ \E c \in Conns : HandlerStep(c)
    \/ \E c \in Conns : PeerConnect(c, MaxConns) \/ PeerSend(c, LoadMsgs(c)) \/ PeerClose(c)

\* The server under concurrent clients that send well-formed batches only
SpecLoad == Init /\ [][NextLoad]_vars

Next ==
    \/ ServerStep
    \/ \E c \in Conns : HandlerStep(c)
    \/ \E m \in Meters : MeterStep(m, 1)

\* The pipeline: the meters, the network and the server.  start() is called
\* again only after both threads of the earlier start() have returned.
Spec == Init /\ [][Next]_vars

\* The same with the scheduler's guarantee that a live thread of a meter
\* keeps taking steps (every sleep, connect and recv returns or times out)
FairSpec ==
    Spec /\ \A m \in Meters : WF_vars(ReadThread(m, 1)) /\ WF_vars(SendThread(m, 1))

NextAll ==
    \/ Next
    \/ \E a \in 1..MaxPipelineAggs : AggStep(a)

\* The pipeline with aggregation calls on the server
SpecAll == Init /\ [][NextAll]_vars

\* The send loop of a meter whose server is not reachable
OfflineSendThread(m, g) ==
    \/ SendCheck(m, g)
    \/ SendSlice(m, g)
    \/ SendSliceRest(m, g)
    \/ SendEncrypt(m, g)
    \/ SendEncryptFails(m, g)
    \/ SendConnectFails(m, g)

NextLife ==
    \E m \in Meters :
        \/ MeterStop(m)
        \/ \E g \in Gens : MeterStart(m, g) \/ ReadThread(m, g) \/ OfflineSendThread(m, g)

\* The life cycle of a meter: start() and stop() called at any time, the
\* server being down
SpecLife == Init /\ [][NextLife]_vars

\* ------------------------------------------------ EncryptedData on the wire
\* Python values: an int, a float (here a whole part and one decimal digit),
\* a str (a sequence of characters) and a bytes (a sequence of 0..255)
PyInt(n) == [t |-> "int", v |-> n]
PyFloat(w, f) == [t |-> "float", w |-> w, f |-> f]
PyStr(s) == [t |-> "str", s |-> s]
PyBytes(b) == [t |-> "bytes", b |-> b]

HexDigits == <<"0", "1", "2", "3", "4", "5", "6", "7", "8", "9", "a", "b", "c", "d", "e", "f">>
IsHexDigit(ch) == \E d \in 1..16 : HexDigits[d] = ch
HexVal(ch) == (CHOOSE d \in 1..16 : HexDigits[d] = ch) - 1
IsDigit(ch) == IsHexDigit(ch) /\ HexVal(ch) < 10

\* bytes.hex(): two lower-case hexadecimal digits per byte
RawBytes(b) == [i \in 1..Len(b) |-> IF b[i] = 10 THEN "\n" ELSE "x"]
Hex(b) ==
    [i \in 1..(2 * Len(b)) |->
        IF i % 2 = 1 THEN HexDigits[(b[(i + 1) \div 2] \div 16) + 1]
                     ELSE HexDigits[(b[i \div 2] % 16) + 1]]

\* bytes.fromhex() raises ValueError on an odd length or a non-hexadecimal digit
FromHexRaises(s) == Len(s) % 2 = 1 \/ \E i \in 1..Len(s) : ~IsHexDigit(s[i])
FromHex(s) ==
    [i \in 1..(Len(s) \div 2) |-> 16 * HexVal(s[2 * i - 1]) + HexVal(s[2 * i])]

\* EncryptedData(meter_id, timestamp, ciphertext, encryption_time_ms, scheme,
\* encrypted_count)
EncryptedData(m, ts, ct, ms, scheme, n) ==
    [kind |-> "EncryptedData", meter_id |-> m, timestamp |-> ts, ciphertext |-> ct,
     encryption_time_ms |-> ms, scheme |-> scheme, encrypted_count |-> n]

\* The keys of the dict of to_dict
K ==
    [meter_id |-> <<"m", "e", "t", "e", "r", "_", "i", "d">>,
     timestamp |-> <<"t", "i", "m", "e", "s", "t", "a", "m", "p">>,
     ciphertext |-> <<"c", "i", "p", "h", "e", "r", "t", "e", "x", "t">>,
     encryption_time_ms |-> <<"e", "n", "c", "r", "y", "p", "t", "i", "o", "n", "_", "t", "i", "m", "e", "_", "m", "s">>,
     scheme |-> <<"s", "c", "h", "e", "m", "e">>,
     encrypted_count |-> <<"e", "n", "c", "r", "y", "p", "t", "e", "d", "_", "c", "o", "u", "n", "t">>]
CKKS == <<"C", "K", "K", "S">>

\* to_dict: the ciphertext goes through hex() when it is a bytes
ToDict(b) ==
    << <<K.meter_id, b.meter_id>>,
       <<K.timestamp, b.timestamp>>,
       <<K.ciphertext, IF b.ciphertext.t = "bytes" THEN PyStr(Hex(b.ciphertext.b))
                       ELSE b.ciphertext>>,
       <<K.encryption_time_ms, b.encryption_time_ms>>,
       <<K.scheme, b.scheme>>,
       <<K.encrypted_count, b.encrypted_count>> >>

RECURSIVE IntToChars(_)
\* str(int)
IntToChars(n) ==
    IF n < 10 THEN <<HexDigits[n + 1]>>
    ELSE IntToChars(n \div 10) \o <<HexDigits[(n % 10) + 1]>>

\* json.dumps of a str: quotes, with the quote, the backslash and the control
\* characters escaped
EscapeChar(ch) ==
    IF ch = "\"" THEN <<"\\", "\"">>
    ELSE IF ch = "\\" THEN <<"\\", "\\">>
    ELSE IF ch = "\n" THEN <<"\\", "n">>
    ELSE <<ch>>

RECURSIVE Escape(_)
Escape(s) == IF s = << >> THEN << >> ELSE EscapeChar(Head(s)) \o Escape(Tail(s))

Quote(s) == <<"\"">> \o Escape(s) \o <<"\"">>

\* json.dumps of a value; a float is written by float.__repr__
JsonValue(v) ==
    IF v.t = "int" THEN IntToChars(v.v)
    ELSE IF v.t = "float" THEN IntToChars(v.w) \o <<".", HexDigits[v.f + 1]>>
    ELSE Quote(v.s)

RECURSIVE JsonMembers(_)
\* the members of an object, separated by ", ", key and value by ": "
JsonMembers(d) ==
    IF d = << >> THEN << >>
    ELSE Quote(Head(d)[1]) \o <<":", " ">> \o JsonValue(Head(d)[2])
           \o (IF Tail(d) = << >> THEN << >> ELSE <<",", " ">> \o JsonMembers(Tail(d)))

\* to_json: json.dumps of the dict, with the default separators and no indent
ToJson(b) == <<"{">> \o JsonMembers(ToDict(b)) \o <<"}">>

\* What a scan returns: the value read and the position after it, or a failure
Scan(v, next) == [ok |-> TRUE, v |-> v, next |-> next]
ScanFails == [ok |-> FALSE, v |-> << >>, next |-> 0]

RECURSIVE ScanStr(_, _, _)
\* json.loads on a string, from the character after the opening quote: up to
\* the closing quote, undoing the escapes; a raw control character is an error
ScanStr(txt, i, acc) ==
    IF i > Len(txt) \/ txt[i] = "\n" THEN ScanFails
    ELSE IF txt[i] = "\"" THEN Scan(PyStr(acc), i + 1)
    ELSE IF txt[i] = "\\"
      THEN IF i + 1 > Len(txt) THEN ScanFails
           ELSE IF txt[i + 1] = "n" THEN ScanStr(txt, i + 2, Append(acc, "\n"))
           ELSE IF txt[i + 1] \in {"\"", "\\"} THEN ScanStr(txt, i + 2, Append(acc, txt[i + 1]))
           ELSE ScanFails
    ELSE ScanStr(txt, i + 1, Append(acc, txt[i]))

RECURSIVE ScanInt(_, _, _)
\* the digits of a number
ScanInt(txt, i, acc) ==
    IF i <= Len(txt) /\ IsDigit(txt[i]) THEN ScanInt(txt, i + 1, 10 * acc + HexVal(txt[i]))
    ELSE Scan(acc, i)

\* json.loads on a number: an int, or a float when a fraction follows
ScanNumber(txt, i) ==
    LET whole == ScanInt(txt, i, 0) IN
      IF whole.next = i THEN ScanFails
      ELSE IF whole.next + 1 <= Len(txt) /\ txt[whole.next] = "."
                /\ IsDigit(txt[whole.next + 1])
        THEN Scan(PyFloat(whole.v, HexVal(txt[whole.next + 1])), whole.next + 2)
      ELSE Scan(PyInt(whole.v), whole.next)

RECURSIVE ScanMembers(_, _, _)
\* json.loads on the members of an object, from the opening quote of a key
ScanMembers(txt, i, acc) ==
    IF i > Len(txt) \/ txt[i] # "\"" THEN ScanFails
    ELSE LET key == ScanStr(txt, i + 1, << >>) IN
      IF ~key.ok \/ key.next + 2 > Len(txt) \/ txt[key.next] # ":" THEN ScanFails
      ELSE LET val == IF txt[key.next + 2] = "\""
                         THEN ScanStr(txt, key.next + 3, << >>)
                         ELSE ScanNumber(txt, key.next + 2) IN
        IF ~val.ok \/ val.next > Len(txt) THEN ScanFails
        ELSE IF txt[val.next] = "}" /\ val.next = Len(txt)
          THEN Scan(Append(acc, <<key.v.s, val.v>>), val.next + 1)
        ELSE IF txt[val.next] = ","
          THEN ScanMembers(txt, val.next + 2, Append(acc, <<key.v.s, val.v>>))
        ELSE ScanFails

\* json.loads raises on anything that is not one object
JsonLoads(txt) ==
    IF Len(txt) < 2 \/ txt[1] # "{" THEN ScanFails ELSE ScanMembers(txt, 2, << >>)

RECURSIVE Strip(_)
\* str.strip(): white space off both ends
Strip(txt) ==
    IF txt = << >> THEN txt
    ELSE IF Head(txt) \in {" ", "\n"} THEN Strip(Tail(txt))
    ELSE IF txt[Len(txt)] \in {" ", "\n"} THEN Strip(SubSeq(txt, 1, Len(txt) - 1))
    ELSE txt

\* data[key] and data.get(key, default) of a dict
HasKey(d, key) == \E i \in 1..Len(d) : d[i][1] = key
Get(d, key) == d[CHOOSE i \in 1..Len(d) : d[i][1] = key][2]
GetOr(d, key, default) == IF HasKey(d, key) THEN Get(d, key) ELSE default

\* from_dict raises KeyError on a missing key, ValueError on a bad hex string
FromDictRaises(d) ==
    \/ \E key \in {K.meter_id, K.timestamp, K.ciphertext, K.encryption_time_ms} :
          ~HasKey(d, key)
    \/ Get(d, K.ciphertext).t = "str" /\ FromHexRaises(Get(d, K.ciphertext).s)

\* from_dict
FromDict(d) ==
    EncryptedData(Get(d, K.meter_id),
                  Get(d, K.timestamp),
                  IF Get(d, K.ciphertext).t = "str"
                    THEN PyBytes(FromHex(Get(d, K.ciphertext).s))
                    ELSE Get(d, K.ciphertext),
                  Get(d, K.encryption_time_ms),
                  GetOr(d, K.scheme, PyStr(CKKS)),
                  GetOr(d, K.encrypted_count, PyInt(1)))

\* The batches a send path can build: a time stamp and an encryption time
\* that are floats, a blob of any bytes, a scheme tag, a count of at least 1
MaxBlobLen == 2
Blobs == UNION {[1..n -> {0, 10, 34, 255}] : n \in 1..MaxBlobLen}
Batches ==
    {EncryptedData(PyInt(m), ts, PyBytes(ct), PyFloat(12, 3), PyStr(scheme), PyInt(n)) :
        m \in MeterIds, ts \in {PyFloat(0, 0), PyFloat(1730707200, 5)}, ct \in Blobs,
        scheme \in {CKKS, <<"\"", "\\", "\n">>}, n \in 1..MaxCount}

\* _encrypt_and_send: encrypted_data = EncryptedData(...)
WireBuild(b) ==
    /\ w_pc = "none"
    /\ w_batch' = b
    /\ w_pc' = "built"
    /\ UNCHANGED <<server_vars, conn_vars, agg_vars, meter_vars, w_json, w_data,
                   w_parsed>>

\* _send_to_server: data_json = encrypted_data.to_json()
WireToJson ==
    /\ w_pc = "built"
    /\ w_json' = ToJson(w_batch)
    /\ w_pc' = "json"
    /\ UNCHANGED <<server_vars, conn_vars, agg_vars, meter_vars, w_batch, w_data,
                   w_parsed>>

\* sock.sendall(data_json.encode('utf-8') + b'\n'); the handler reads up to
\* the terminator
WireSendall ==
    /\ w_pc = "json"
    /\ w_data' = w_json \o <<"\n">>
    /\ w_pc' = "sent"
    /\ UNCHANGED <<server_vars, conn_vars, agg_vars, meter_vars, w_batch, w_json,
                   w_parsed>>

\* _process_encrypted_data(data.decode('utf-8').strip()): json.loads, from_dict
WireProcess ==
    /\ w_pc = "sent"
    /\ LET loaded == JsonLoads(Strip(w_data)) IN
         w_parsed' = IF ~loaded.ok THEN [kind |-> "json_error"]
                     ELSE IF FromDictRaises(loaded.v) THEN [kind |-> "from_dict_error"]
                     ELSE FromDict(loaded.v)
    /\ w_pc' = "parsed"
    /\ UNCHANGED <<server_vars, conn_vars, agg_vars, meter_vars, w_batch, w_json,
                   w_data>>

NextWire ==
    \/ \E b \in Batches : WireBuild(b)
    \/ WireToJson
    \/ WireSendall
    \/ WireProcess

\* One EncryptedData from the meter's constructor to the server's from_dict
SpecWire == Init /\ [][NextWire]_vars

\* --------------------------------------------------------------- claims
RECURSIVE SumCounts(_)
\* The sum of the count fields of a sequence of batch records
SumCounts(batches) ==
    IF batches = << >> THEN 0
    ELSE EncryptedCount(Head(batches)) + SumCounts(Tail(batches))

RECURSIVE SumOver(_, _)
SumOver(S, f) ==
    IF S = {} THEN 0
    ELSE LET x == CHOOSE y \in S : TRUE IN f[x] + SumOver(S \ {x}, f)

Range(seq) == {seq[i] : i \in 1..Len(seq)}

WellFormed(msg) == msg.kind \in {"valid", "nocount"}

\* C1: a mean is the homomorphic sum multiplied by 1/total_count, total_count
\* being the sum of the count fields of the folded ciphertexts, not their number.
C1_MeanDividesByReadings ==
    \A a \in Aggs :
        (agg_pc[a] = "append" /\ agg_op[a] = "mean")
            => agg_result[a].encrypted_result.den = SumCounts(agg_batches[a])

\* C2: on a connection whose message fails to deserialize the server sends
\* nothing, in particular no ACK.
C2_NoAckOnMalformed ==
    \A c \in Conns :
        c_msg[c].kind \in {"nonjson", "missing"} => c_sent[c] = ""

\* C3: every step of a handler whose message fails to deserialize leaves the
\* ciphertext sequences, the timestamp sequences, the active set and
\* total_readings_received as they were.
C3_MalformedLeavesStore ==
    [][\A c \in Conns :
          (c_pc'[c] # c_pc[c] /\ c_msg[c].kind \in {"nonjson", "missing", "nonutf8"})
              => UNCHANGED store_vars]_vars

C3_Witness ==
    \E c, d \in Conns :
        /\ c_msg[c].kind = "missing" /\ c_pc[c] = "done"
        /\ c_msg[d].kind = "nonjson" /\ c_pc[d] = "done"

\* C4: once P producers have each had M well-formed batches of batch_size
\* readings handled, total_readings_received = P*M*batch_size and every
\* producer's sequence has length M, whatever the interleaving of the handlers.
C4_ConcurrentTotals ==
    LET Used == {c \in Conns : c_pc[c] # "free"}
        P == {m \in MeterIds : \E c \in Used : c_msg[c].meter_id = m}
        Of(m) == {c \in Used : c_msg[c].meter_id = m}
    IN \A M \in 1..MaxConns :
          ( /\ \A c \in Used : /\ c_pc[c] = "done"
                               /\ c_msg[c].kind = "valid"
                               /\ c_msg[c].count = batch_size
                               /\ c_sent[c] = "ACK"
            /\ \A m \in P : Cardinality(Of(m)) = M )
          => /\ total_readings_received = Cardinality(P) * M * batch_size
             /\ \A m \in P : Len(encrypted_readings[m]) = M

C4_Witness ==
    /\ \A c \in 1..4 : c_pc[c] = "done" /\ c_sent[c] = "ACK"
    /\ \A c \in Conns : c > 4 => c_pc[c] = "free"
    /\ \A m \in 0..1 : Cardinality({c \in 1..4 : c_msg[c].meter_id = m}) = 2
    /\ total_readings_received = 2 * 2 * batch_size

\* C5: whenever ACK has been sent for a well-formed batch, the handler is out
\* of the lock, the batch's ciphertext is in its producer's sequence and its
\* count is in total_readings_received.
C5_AckAfterStore ==
    LET Acked == {c \in Conns : c_sent[c] = "ACK" /\ WellFormed(c_msg[c])}
    IN /\ \A c \in Acked :
             /\ c_msg[c].ciphertext \in Range(encrypted_readings[c_msg[c].meter_id])
             /\ lock # Handler(c)
       /\ total_readings_received >=
             SumOver(Acked, [c \in Conns |-> EncryptedCount(c_msg[c])])

C5_Witness ==
    \E c \in Conns : c_sent[c] = "ACK" /\ c_msg[c].kind = "valid" /\ c_msg[c].count = 2

\* C7: when no handler holds the lock and every batch in the store was
\* accepted, total_readings_received is the sum of their count fields.
AllStored == Flatten(stored_batches, key_order)

C7_CounterIsSumOfCounts ==
    (lock = Nobody /\ \A i \in 1..Len(AllStored) : CountIsInt(AllStored[i]))
        => total_readings_received = SumCounts(AllStored)

C7_Witness ==
    /\ lock = Nobody
    /\ Len(AllStored) = 2
    /\ \A i \in 1..Len(AllStored) : CountIsInt(AllStored[i])
    /\ total_readings_received = 3

\* C8: a sum or mean started on a store with no ciphertext ends at once with
\* the no-data result, takes no error path and appends no AnalyticsResult.
C8_EmptyStoreNoData ==
    [][\A a \in Aggs :
          (agg_pc[a] = "idle" /\ agg_pc'[a] # "idle"
             /\ Flatten(encrypted_readings, key_order) = << >>)
          => /\ agg_pc'[a] = "done"
             /\ agg_ret'[a].kind = "nodata"
             /\ analytics_results' = analytics_results]_vars

C8_Witness ==
    \E a, b \in Aggs :
        /\ agg_op[a] = "sum" /\ agg_ret[a].kind = "nodata"
        /\ agg_op[b] = "mean" /\ agg_ret[b].kind = "nodata"
        /\ analytics_results = << >>

\* C6: every batch a producer builds has encrypted_count equal to the number
\* of readings sliced for it, which is batch_size.
C6_CountIsSliceLength ==
    \A m \in Meters : \A g \in Gens :
        encrypted_data[m][g] # NoMsg
            => /\ encrypted_data[m][g].count = Len(readings_to_send[m][g])
               /\ encrypted_data[m][g].count = batch_size

C6_Witness ==
    \E m \in Meters : \E g \in Gens :
        /\ encrypted_data[m][g] # NoMsg
        /\ sliced[m] = 2
        /\ Len(readings_to_send[m][g]) = batch_size

TimeoutOutcomes == {"connect_failed", "ack_timeout"}

\* The k-th transmission of meter m has just ended in a timeout
TimedOutAt(m, k) ==
    /\ sliced[m] = k
    /\ Len(send_log[m]) = k
    /\ send_log[m][k] \in TimeoutOutcomes

\* A batch after the k-th has been sliced and has reached transmission (or the
\* Provider refused to encrypt it)
LaterBatchSent(m, k) ==
    \/ sliced[m] > k /\ \E g \in Gens : send_pc[m][g] = "connect"
    \/ Len(send_log[m]) > k /\ send_log[m][k + 1] = "encrypt_failed"

\* C9: a send that ends in a connect or ack timeout drops that batch only: the
\* buffer and the read loop are untouched and the send loop goes back to its
\* test; and while the meter stays running and may still generate a full
\* batch, a later batch is eventually sliced and handed to transmission.
C9_TimeoutDropsOneBatch ==
    /\ [][\A m \in Meters :
            (Len(send_log'[m]) = Len(send_log[m]) + 1
               /\ send_log'[m][Len(send_log'[m])] \in TimeoutOutcomes)
            => /\ readings_buffer'[m] = readings_buffer[m]
               /\ read_pc'[m] = read_pc[m]
               /\ meter_running'[m] = meter_running[m]
               /\ \A g \in Gens :
                     send_pc'[m][g] # send_pc[m][g]
                        => /\ send_pc'[m][g] = "check"
                           /\ readings_to_send'[m][g] = << >>]_vars
    /\ \A m \in Meters : \A k \in 1..((MaxReadings \div batch_size) - 1) :
          TimedOutAt(m, k) ~> (LaterBatchSent(m, k) \/ ~meter_running[m])

C9_Witness ==
    \E m \in Meters :
        /\ Len(send_log[m]) >= 1 /\ send_log[m][1] = "ack_timeout"
        /\ meter_running[m]
        /\ sliced[m] = 2 /\ \E g \in Gens : send_pc[m][g] = "recv"

FailureOutcomes == {"connect_failed", "send_failed", "no_ack", "ack_timeout"}

\* C11: a send that fails (connection refused, timeout, no or wrong ack)
\* leaves the buffer as it was; the readings of a sliced batch never stand in
\* the buffer again; and no batch is put on more than one connection.
C11_FailedBatchIsDropped ==
    /\ [][\A m \in Meters :
            (Len(send_log'[m]) = Len(send_log[m]) + 1
               /\ send_log'[m][Len(send_log'[m])] \in FailureOutcomes)
            => readings_buffer'[m] = readings_buffer[m]]_vars
    /\ [](\A m \in Meters : \A i \in 1..Len(readings_buffer[m]) :
             readings_buffer[m][i] >= sliced[m] * batch_size)
    /\ [](\A c, d \in Conns :
             (c # d /\ c_msg[c] # NoMsg) => c_msg[c].ciphertext # c_msg[d].ciphertext)

C11_Witness ==
    \E m \in Meters : \E c \in Conns :
        /\ Len(send_log[m]) >= 1 /\ send_log[m][1] = "connect_failed"
        /\ c_msg[c].ciphertext = <<m, 2>>

InStoreUpdate(c) == c_pc[c] \in {"L192", "L193", "L193s", "L194"}

\* C13: every step that changes the ciphertext sequences, the timestamps, the
\* active set or the received-readings counter is a step of a handler that
\* holds the lock; a handler inside the update holds it, so at most one
\* handler is inside at any time.
C13_StoreWritesUnderLock ==
    /\ [][store_vars' # store_vars
            => \E c \in Conns :
                  /\ c_pc'[c] # c_pc[c]
                  /\ lock = Handler(c) \/ (lock = Nobody /\ lock' = Handler(c))]_vars
    /\ [](\A c \in Conns : InStoreUpdate(c) => lock = Handler(c))
    /\ [](Cardinality({c \in Conns : InStoreUpdate(c)}) <= 1)

C13_Witness ==
    \E c, d \in Conns :
        /\ c # d
        /\ c_pc[c] = "L193s" /\ lock = Handler(c)
        /\ c_pc[d] = "L191" /\ c_msg[d].kind = "valid"

\* An aggregation call is between its snapshot and its return
InProgress(a) == agg_pc[a] \in {"fold", "append"}

\* C14: between its snapshot and its append an aggregation does not hold the
\* lock, and its fold step leaves the lock to whoever has it, so a handler
\* takes the lock and stores while the aggregation is in progress.
C14_FoldOutsideLock ==
    /\ [](\A a \in Aggs : InProgress(a) => lock # Aggregation(a))
    /\ [][\A a \in Aggs :
            (agg_pc[a] = "fold" /\ agg_pc'[a] # "fold") => lock' = lock]_vars

C14_Witness ==
    \E a \in Aggs : \E c \in Conns :
        /\ agg_pc[a] = "fold"
        /\ lock = Handler(c) /\ c_pc[c] = "L192"
        /\ Len(Flatten(encrypted_readings, key_order)) = Len(agg_all[a]) + 1

\* The ciphertexts of a sequence of batch records
RECURSIVE Ciphertexts(_)
Ciphertexts(batches) ==
    IF batches = << >> THEN << >>
    ELSE <<Head(batches).ciphertext>> \o Ciphertexts(Tail(batches))

\* C15: the result an aggregation has computed is made of the ciphertexts
\* that were in the store when its snapshot was copied, in store order, and
\* of nothing stored since.
C15_ResultOfSnapshotOnly ==
    \A a \in Aggs :
        agg_pc[a] = "append"
            => /\ agg_result[a].encrypted_result.terms = Ciphertexts(agg_batches[a])
               /\ agg_result[a].num_readings = Len(agg_batches[a])

C15_Witness ==
    \E a \in Aggs :
        /\ agg_pc[a] = "append"
        /\ Len(agg_batches[a]) = 1
        /\ Len(Flatten(encrypted_readings, key_order)) = 2

\* The calls that returned a result
Completed == {a \in Aggs : agg_ret[a].kind = "ok"}

\* C16: a call that completes appends one AnalyticsResult carrying the tag
\* of the operation called and returns the ciphertext of that record; the
\* log grows in no other way, so it has one record per completed call.
C16_OneResultPerCall ==
    /\ [][\A a \in Aggs :
            (agg_pc[a] = "append" /\ agg_pc'[a] = "done")
            => /\ Len(analytics_results') = Len(analytics_results) + 1
               /\ SubSeq(analytics_results', 1, Len(analytics_results)) = analytics_results
               /\ analytics_results'[Len(analytics_results')].operation = agg_op[a]
               /\ agg_ret'[a].kind = "ok"
               /\ agg_ret'[a].value =
                     analytics_results'[Len(analytics_results')].encrypted_result]_vars
    /\ [](Len(analytics_results) = Cardinality(Completed))

C16_Witness ==
    /\ Len(analytics_results) = 2
    /\ analytics_results[1].operation = "mean"
    /\ analytics_results[2].operation = "sum"
    /\ \A a \in Aggs : agg_ret[a].kind = "ok"

\* The handler thread of connection c is running
HandlerPcs == {"recv", "L191", "L192", "L193", "L193s", "L194", "bytes_load",
               "bytes_store", "ack"}

\* C17: no step of a handler changes the accept thread or is_running; while
\* the server listens, is_running is cleared by stop() alone, which changes
\* nothing else, and the accept thread ends only with is_running cleared.
C17_HandlerFailureSparesServer ==
    [][/\ (\E c \in Conns : c_pc[c] \in HandlerPcs /\ c_pc'[c] # c_pc[c])
            => UNCHANGED <<server_pc, is_running>>
       /\ (server_pc \in {"loop", "accepting"} /\ is_running /\ ~is_running')
            => UNCHANGED <<store_vars, analytics_results, total_bytes_received, lock,
                           server_pc, conn_vars, agg_vars, meter_vars>>
       /\ (server_pc \in {"loop", "accepting"} /\ server_pc' = "exited")
            => ~is_running]_vars

C17_Witness ==
    \E c, d \in Conns :
        /\ c < d
        /\ c_pc[c] = "done" /\ c_sent[c] = "" /\ c_msg[c].kind = "nonutf8"
        /\ c_pc[d] = "recv"
        /\ is_running /\ server_pc = "accepting"

\* C18: a handler whose recv times out, with nothing or with the beginning
\* of a message received, ends without sending anything and without touching
\* the store or the byte counter.
C18_TimeoutClosesSilently ==
    /\ [][\A c \in Conns :
            (/\ c_pc[c] = "recv" /\ c_pc'[c] # "recv"
             /\ ~c_peer_closed[c]
             /\ c_msg[c].kind \in {"none", "partial"})
            => /\ c_pc'[c] = "done"
               /\ c_sent'[c] = ""
               /\ UNCHANGED <<store_vars, total_bytes_received>>]_vars
    /\ [](\A c \in Conns :
             (c_pc[c] = "done" /\ c_msg[c].kind = "partial" /\ ~c_peer_closed[c])
                => c_sent[c] = "")

C18_Witness ==
    \E c \in Conns :
        /\ c_pc[c] = "done" /\ c_msg[c].kind = "partial" /\ ~c_peer_closed[c]
        /\ c_sent[c] = ""

\* The loops of one kind a meter has alive
LiveReadLoops(m) == {g \in Gens : read_pc[m][g] \notin {"none", "exited"}}
LiveSendLoops(m) == {g \in Gens : send_pc[m][g] \notin {"none", "exited"}}

\* C19: a producer never has more than one read loop nor more than one send
\* loop alive, whatever the sequence of start() and stop() calls.
C19_OneLoopOfEachKind ==
    \A m \in Meters :
        /\ Cardinality(LiveReadLoops(m)) <= 1
        /\ Cardinality(LiveSendLoops(m)) <= 1

\* C20: once stop() has cleared the flag and no start() follows, both loops
\* of the producer eventually have returned.
\* A loop that tests the flag while it is cleared returns.
C20_LoopsExitAfterStop ==
    /\ [][\A m \in Meters : \A g \in Gens :
            /\ (read_pc[m][g] = "check" /\ read_pc'[m][g] # "check" /\ ~meter_running[m])
                  => read_pc'[m][g] = "exited"
            /\ (send_pc[m][g] = "check" /\ send_pc'[m][g] # "check" /\ ~meter_running[m])
                  => send_pc'[m][g] = "exited"]_vars
    /\ \A m \in Meters :
          <>[](~meter_running[m])
              => <>[](LiveReadLoops(m) = {} /\ LiveSendLoops(m) = {})

C20_Witness ==
    \E m \in Meters :
        /\ ~meter_running[m]
        /\ read_pc[m][1] = "exited" /\ send_pc[m][1] = "exited"
        /\ Len(send_log[m]) >= 1

\* C21: a Provider failure ends only its operation.  An encryption failure
\* drops its batch: the send loop returns to its test, nothing is put on a
\* connection, the buffer and the running flag stay, and no connection ever
\* carries that batch.  A failed fold ends its call with the log and the store
\* as they were and leaves the accept thread and is_running alone.
C21_ProviderFailureIsLocal ==
    /\ [][\A m \in Meters :
            (Len(send_log'[m]) = Len(send_log[m]) + 1
               /\ send_log'[m][Len(send_log'[m])] = "encrypt_failed")
            => /\ \A g \in Gens :
                     send_pc'[m][g] # send_pc[m][g] => send_pc'[m][g] = "check"
               /\ UNCHANGED <<c_msg, c_pc, readings_buffer, meter_running, server_vars>>]_vars
    /\ [](\A m \in Meters : \A k \in 1..Len(send_log[m]) :
             send_log[m][k] = "encrypt_failed"
                => \A c \in Conns : c_msg[c].ciphertext # <<m, k>>)
    /\ [][\A a \in Aggs :
            (agg_ret'[a].kind = "error" /\ agg_ret[a].kind # "error")
            => UNCHANGED <<store_vars, analytics_results, server_pc, is_running>>]_vars

C21_Witness ==
    \E m \in Meters : \E c \in Conns : \E a \in Aggs :
        /\ Len(send_log[m]) >= 1 /\ send_log[m][1] = "encrypt_failed"
        /\ c_msg[c].ciphertext = <<m, 2>>
        /\ agg_ret[a].kind = "error"
        /\ is_running /\ server_pc \in {"loop", "accepting"}

\* C22: the meters share one context, and every ciphertext an aggregation
\* has folded was encrypted under the context the aggregator works in.
C22_OneContext ==
    /\ \A m, n \in MeterIds : EngineOf(m) = EngineOf(n)
    /\ \A a \in Aggs :
          agg_pc[a] = "append"
             => \A i \in 1..Len(agg_batches[a]) :
                   EngineOf(agg_batches[a][i].meter_id) = AggregatorContext

\* The place of a blob in a sequence that holds it
IndexIn(seq, x) == CHOOSE i \in 1..Len(seq) : seq[i] = x

\* C23: the result of a fold lists the snapshot from its first element on,
\* each element once, and two ciphertexts of one producer stand in it in the
\* order in which the store holds them.
C23_FoldInStoreOrder ==
    \A a \in Aggs :
        agg_pc[a] = "append"
           => LET terms == agg_result[a].encrypted_result.terms IN
                /\ Len(terms) = Len(agg_batches[a])
                /\ terms[1] = agg_batches[a][1].ciphertext
                /\ \A p, q \in 1..Len(terms) :
                      (p < q /\ terms[p][1] = terms[q][1])
                         => IndexIn(encrypted_readings[terms[p][1]], terms[p])
                              < IndexIn(encrypted_readings[terms[q][1]], terms[q])

C23_Witness ==
    \E a \in Aggs :
        /\ agg_pc[a] = "append"
        /\ Len(agg_result[a].encrypted_result.terms) = 2
        /\ agg_result[a].encrypted_result.terms[1][1]
              = agg_result[a].encrypted_result.terms[2][1]

\* buf2 is buf with one element appended
IsAppend(buf, buf2) == Len(buf2) = Len(buf) + 1 /\ SubSeq(buf2, 1, Len(buf)) = buf

\* C24: a step that takes readings out of a buffer finds at least batch_size
\* of them, takes exactly the batch_size oldest, the ones the send loop holds
\* as its batch, and leaves the others in their order; between the test and
\* the removal no other step changes the buffer; a send loop that finds fewer
\* than batch_size readings changes nothing.
C24_SliceIsAtomic ==
    /\ [][\A m \in Meters :
            (readings_buffer'[m] # readings_buffer[m]
               /\ ~IsAppend(readings_buffer[m], readings_buffer'[m]))
            => /\ Len(readings_buffer[m]) >= batch_size
               /\ readings_buffer'[m]
                    = SubSeq(readings_buffer[m], batch_size + 1, Len(readings_buffer[m]))
               /\ \E g \in Gens :
                     /\ send_pc[m][g] = "rest" /\ send_pc'[m][g] = "encrypt"
                     /\ readings_to_send'[m][g]
                          = SubSeq(readings_buffer[m], 1, batch_size)]_vars
    /\ [][\A m \in Meters : \A g \in Gens :
            (send_pc[m][g] = "rest" /\ send_pc'[m][g] = "rest")
            => readings_buffer'[m] = readings_buffer[m]]_vars
    /\ [][\A m \in Meters : \A g \in Gens :
            (send_pc[m][g] = "slice" /\ send_pc'[m][g] # "slice"
               /\ Len(readings_buffer[m]) < batch_size)
            => /\ send_pc'[m][g] = "check"
               /\ UNCHANGED <<readings_buffer, readings_to_send>>]_vars

C24_Witness ==
    \E m \in Meters : \E g \in Gens :
        /\ send_pc[m][g] = "encrypt"
        /\ readings_to_send[m][g] = <<0, 1>>
        /\ readings_buffer[m] = <<2>>
        /\ reading_count[m] = 3

\* C25: the readings a producer creates carry the ids 0, 1, 2, ... in
\* creation order: the i-th reading waiting in the buffer, which follows the
\* readings of the batches sliced so far, has the id sliced * batch_size + i - 1.
C25_SequenceIdsIncrease ==
    \A m \in Meters : \A i \in 1..Len(readings_buffer[m]) :
        readings_buffer[m][i] = sliced[m] * batch_size + i - 1

IsPrefix(seq, seq2) == Len(seq) <= Len(seq2) /\ SubSeq(seq2, 1, Len(seq)) = seq

\* C26: every step keeps each producer's ciphertext sequence and the
\* analytics log as a prefix of what they become, and keeps every member of
\* the active set.
C26_AppendOnly ==
    [][/\ \A m \in DOMAIN encrypted_readings :
             /\ m \in DOMAIN encrypted_readings'
             /\ IsPrefix(encrypted_readings[m], encrypted_readings'[m])
       /\ IsPrefix(analytics_results, analytics_results')
       /\ active_meters \subseteq active_meters']_vars

C26_Witness ==
    /\ \E m \in DOMAIN encrypted_readings : Len(encrypted_readings[m]) = 2
    /\ Len(analytics_results) = 2
    /\ active_meters # {}

\* C29: the num_readings of a result, recorded and returned, is the sum of
\* the count fields of the ciphertexts of the snapshot.
C29_NumReadingsIsSumOfCounts ==
    \A a \in Aggs :
        agg_pc[a] = "append"
           => agg_result[a].num_readings = SumCounts(agg_batches[a])

InFlight == {"encrypt", "connect", "send", "recv"}

C27_WireRoundTrip ==
    /\ w_pc \in {"json", "sent", "parsed"}
          => \A i \in 1..Len(w_json) : w_json[i] # "\n"
    /\ w_pc \in {"sent", "parsed"}
          => /\ w_data[Len(w_data)] = "\n"
             /\ \A i \in 1..(Len(w_data) - 1) : w_data[i] # "\n"
    /\ w_pc = "parsed"
          => /\ w_parsed = w_batch
             /\ \A f \in {"meter_id", "timestamp", "ciphertext", "encryption_time_ms",
                           "scheme", "encrypted_count"} : w_parsed[f] = w_batch[f]

C27_Witness ==
    /\ w_pc = "parsed"
    /\ w_batch.ciphertext = PyBytes(<<10, 255>>)
    /\ Len(w_batch.scheme.s) = 3
    /\ w_batch.encrypted_count = PyInt(2)
    /\ w_parsed.kind = "EncryptedData"

\* C31: the store holds at most one ciphertext that came in on a connection;
\* a connection's ACK is sent once, by the step that ends its handler, and a
\* handler that has ended takes no further step.  A connection carrying
\* several terminated messages, or an unterminated one before the close,
\* stores nothing.
C31_OneBatchOneAck ==
    /\ [](\A c \in Conns :
            /\ Cardinality({<<m, i>> \in MeterIds \X (1..MaxConns) :
                              /\ i <= Len(encrypted_readings[m])
                              /\ encrypted_readings[m][i][2] = c}) <= 1
            /\ c_msg[c].kind \in {"several", "partial"}
                  => \A m \in MeterIds : \A i \in 1..Len(encrypted_readings[m]) :
                        encrypted_readings[m][i][2] # c)
    /\ [][\A c \in Conns :
            /\ c_sent'[c] # c_sent[c]
                 => c_sent[c] = "" /\ c_sent'[c] = "ACK" /\ c_pc'[c] = "done"
            /\ c_pc[c] = "done" => c_pc'[c] = "done" /\ c_sent'[c] = c_sent[c]]_vars

C31_Witness ==
    \E c, e \in Conns :
        /\ c_pc[c] = "done" /\ c_msg[c].kind = "several" /\ c_sent[c] = "ACK"
        /\ c_pc[e] = "done" /\ c_msg[e].kind = "valid" /\ c_sent[e] = "ACK"
        /\ encrypted_readings[c_msg[e].meter_id] = <<c_msg[e].ciphertext>>

\* C32: the num_meters of a result is the number of distinct producers whose
\* ciphertexts are in the snapshot that was folded.
C32_NumMetersOfSnapshot ==
    \A a \in Aggs :
        agg_pc[a] = "append"
           => agg_result[a].num_meters
                = Cardinality({agg_batches[a][i].meter_id : i \in 1..Len(agg_batches[a])})

\* C33: when no handler holds the lock, each producer has as many timestamps
\* as ciphertexts, the active set is the set of producers with a ciphertext,
\* and the counter holds the count of every stored batch.
C33_StoreUpdateAllOrNothing ==
    lock = Nobody
       => /\ \A m \in MeterIds :
                Len(encrypted_readings[m]) = Len(reading_timestamps[m])
          /\ active_meters = {m \in MeterIds : encrypted_readings[m] # << >>}
          /\ total_readings_received
                = SumOver({<<m, i>> \in MeterIds \X (1..MaxConns) :
                              i <= Len(stored_batches[m])},
                          [x \in MeterIds \X (1..MaxConns) |->
                              IF x[2] <= Len(stored_batches[x[1]])
                                THEN EncryptedCount(stored_batches[x[1]][x[2]]) ELSE 0])

\* The connections whose handler has added its message's length
Counted == {c \in Conns : c_pc[c] = "ack" \/ c_sent[c] = "ACK"}

\* C34: when no handler is between loading and storing the byte counter,
\* total_bytes_received is the sum of the lengths of the messages whose
\* handlers have added theirs.
C34_NoLostByteUpdate ==
    (\A c \in Conns : c_pc[c] # "bytes_store")
       => total_bytes_received = SumOver(Counted, [c \in Conns |-> c_msg[c].nbytes])

\* C35: a batch whose transmission the producer recorded as ended without an
\* ACK (timeout or empty answer) is not in the store.
C35_StoredMeansAcked ==
    \A m \in Meters : \A k \in 1..Len(send_log[m]) :
        send_log[m][k] \in {"ack_timeout", "no_ack"}
           => \A i \in 1..Len(encrypted_readings[m]) : encrypted_readings[m][i] # <<m, k>>

\* C36: no ciphertext stands twice in a producer's sequence, no two
\* connections carry the same batch, and a producer has no more stored
\* ciphertexts than batches sliced.
C36_NoBatchTwice ==
    /\ \A m \in Meters : \A i, j \in 1..Len(encrypted_readings[m]) :
          i # j => encrypted_readings[m][i] # encrypted_readings[m][j]
    /\ \A c, d \in Conns :
          (c # d /\ c_msg[c].kind = "valid" /\ c_msg[d].kind = "valid")
             => c_msg[c].ciphertext # c_msg[d].ciphertext
    /\ \A m \in Meters : Len(encrypted_readings[m]) <= sliced[m]

C36_Witness ==
    \E m \in Meters :
        /\ Len(encrypted_readings[m]) = 2
        /\ \E k \in 1..Len(send_log[m]) : send_log[m][k] = "ack_timeout"

\* The readings a producer has created: those in the buffer and those sliced
Created(m) == Len(readings_buffer[m]) + batch_size * sliced[m]

\* C37: outside the gap between an append and its increment reading_count is
\* the number of readings created, and inside it the counter is one behind.
C37_CounterTracksReadings ==
    \A m \in Meters :
        /\ (\A g \in Gens : read_pc[m][g] # "incr") => reading_count[m] = Created(m)
        /\ Created(m) - reading_count[m] \in {0, 1}

\* C38: batches_sent counts the transmissions that ended, whatever their
\* outcome, and not the batches whose encryption failed.
C38_BatchesSentCountsHandovers ==
    \A m \in Meters :
        batches_sent[m]
          = Cardinality({k \in 1..Len(send_log[m]) : send_log[m][k] # "encrypt_failed"})

C38_Witness ==
    \E m \in Meters :
        /\ batches_sent[m] = 1
        /\ Len(send_log[m]) = 2
        /\ \E k \in 1..2 : send_log[m][k] = "encrypt_failed"
        /\ \E k \in 1..2 : send_log[m][k] \in {"connect_failed", "send_failed", "ack_timeout"}
        /\ encrypted_readings[m] = << >>

\* C39: outside _send_to_server no socket it created is left without close().
C39_SocketClosedOnReturn ==
    \A m \in Meters : \A g \in Gens :
        send_pc[m][g] \notin {"send", "recv"} => ~sock_open[m][g]

\* C40: once stop() has cleared the flag of a started server, the listening
\* socket is eventually closed, wherever the accept thread was at the time.
C40_StopClosesListeningSocket ==
    (~is_running /\ server_pc \in {"setup", "loop", "accepting"})
        ~> (server_socket = "closed")

\* C10: in each producer's store sequence the ciphertexts stand in the order
\* in which the producer sliced their batches.
C10_StoreKeepsSliceOrder ==
    \A m \in Meters :
        \A i, j \in 1..Len(encrypted_readings[m]) :
            i < j => encrypted_readings[m][i][2] < encrypted_readings[m][j][2]
====
